---- MODULE Spec2Model ----
(***************************************************************************)
(* The pool collector of zfs_exporter: collector/pool.go (registry,        *)
(* describe/update, updatePoolMetrics, constructors) and zfs/pool.go       *)
(* (Properties, processLine).  One collection pass is modelled as the      *)
(* goroutine of update plus one goroutine per pool, after the collector    *)
(* was constructed and described (Spec).  HandlerSpec exercises one        *)
(* handler's processLine on its own, over records of any shape.            *)
(*                                                                         *)
(* Code of the repository that is referenced but not part of the two       *)
(* files (execute, propertyStore.find, property.push, the transforms) is   *)
(* modelled from the specification text and marked so where it is defined. *)
(***************************************************************************)
EXTENDS Integers, Sequences, FiniteSets, TLC

(* ------------------------------ bounds -------------------------------- *)

\* largest number of pools handed to one pass of update
MaxPools == 2

(* ----------------------------- constants ------------------------------ *)

Nil == "nil"

\* zfs/pool.go: PoolKind
PoolProps == "properties"
PoolIostat == "iostats"
\* a kind that is no PoolKind constant of the package
PoolOther == "datasets"
Kinds == {PoolProps, PoolIostat, PoolOther}

\* collector/pool.go: defaultPoolIostats
defaultPoolIostats == <<"opread", "opwrite", "bwread", "bwwrite">>

ErrInvalidOutput == "invalid output"
ErrUnknownPoolType == "unknown pool type"
ErrUnsupportedProperty == "unsupported property"
ErrTransform == "transform error"
ErrPipe == "stdout pipe"
ErrStart == "start"
ErrExit == "exit status 1"

\* names the discovery collaborator can supply, in the order it lists them
PoolNames == <<"tank", "data", "zroot", "backup">>

\* property lists an operator may configure for the properties kind; guid
\* is a pool property the registry does not hold
PropConfigs == {<<"size">>, <<"health", "size">>, <<"guid", "size">>}

\* collector/pool.go: poolProperties.store (key -> metric name, transform)
poolPropertiesStore ==
  [k \in {"allocated", "dedupratio", "capacity", "expandsize", "fragmentation",
          "free", "freeing", "health", "leaked", "readonly", "size",
          "opread", "opwrite", "bwread", "bwwrite"} |->
     CASE k = "allocated"     -> [name |-> "allocated_bytes",     transform |-> "numeric"]
       [] k = "dedupratio"    -> [name |-> "deduplication_ratio", transform |-> "multiplier"]
       [] k = "capacity"      -> [name |-> "capacity_ratio",      transform |-> "percentage"]
       [] k = "expandsize"    -> [name |-> "expand_size_bytes",   transform |-> "numeric"]
       [] k = "fragmentation" -> [name |-> "fragmentation_ratio", transform |-> "percentage"]
       [] k = "free"          -> [name |-> "free_bytes",          transform |-> "numeric"]
       [] k = "freeing"       -> [name |-> "freeing_bytes",       transform |-> "numeric"]
       [] k = "health"        -> [name |-> "health",              transform |-> "healthcode"]
       [] k = "leaked"        -> [name |-> "leaked_bytes",        transform |-> "numeric"]
       [] k = "readonly"      -> [name |-> "readonly",            transform |-> "bool"]
       [] k = "size"          -> [name |-> "size_bytes",          transform |-> "numeric"]
       [] k = "opread"        -> [name |-> "operations_read",     transform |-> "numeric"]
       [] k = "opwrite"       -> [name |-> "operations_write",    transform |-> "numeric"]
       [] k = "bwread"        -> [name |-> "bandwidth_read",      transform |-> "numeric"]
       [] k = "bwwrite"       -> [name |-> "bandwidth_write",     transform |-> "numeric"]]

(* ------------------------- helper operators --------------------------- *)

Range(s) == {s[i] : i \in DOMAIN s}

NoDup(s) == \A i, j \in DOMAIN s : i # j => s[i] # s[j]

\* an assignment that keeps the value a key already has
PutIfAbsent(m, k, v) == m @@ (k :> v)

\* m[k] = v, as the Go map assignment makes it
Put(m, k, v) == (k :> v) @@ m

Min(a, b) == IF a < b THEN a ELSE b

(* ------------------------- zfs/pool.go -------------------------------- *)

\* newPoolPropertiesImpl: a handler of the kind with an empty map
newPoolPropertiesImpl(pkind) == [kind |-> pkind, properties |-> <<>>]

\* getFieldsPerRecord
getFieldsPerRecord(kind) ==
  CASE kind = PoolProps  -> 3
    [] kind = PoolIostat -> 7
    [] OTHER             -> 3

\* processLine without the comparison of the first field with the pool
processLineAnyName(kind, properties, pool, line) ==
  CASE kind = PoolProps ->
         IF Len(line) # 3
         THEN [err |-> ErrInvalidOutput, properties |-> properties]
         ELSE [err |-> Nil, properties |-> Put(properties, line[2], line[3])]
    [] kind = PoolIostat ->
         IF Len(line) # 7
         THEN [err |-> ErrInvalidOutput, properties |-> properties]
         ELSE [err |-> Nil,
               properties |-> Put(Put(Put(Put(properties,
                                "opread", line[4]),
                                "opwrite", line[5]),
                                "bwwrite", line[6]),
                                "bwwrite", line[7])]
    [] OTHER -> [err |-> ErrUnknownPoolType, properties |-> properties]

\* processLine: line is the tuple of fields, line[1] is Go's line[0].
\* The result is the returned error and the handler's map afterwards.
processLine(kind, properties, pool, line) ==
  CASE kind = PoolProps ->
         IF Len(line) # 3 \/ line[1] # pool
         THEN [err |-> ErrInvalidOutput, properties |-> properties]
         ELSE [err |-> Nil, properties |-> Put(properties, line[2], line[3])]
    [] kind = PoolIostat ->
         IF Len(line) # 7 \/ line[1] # pool
         THEN [err |-> ErrInvalidOutput, properties |-> properties]
         ELSE [err |-> Nil,
               properties |-> Put(Put(Put(Put(properties,
                                "opread", line[4]),
                                "opwrite", line[5]),
                                "bwwrite", line[6]),
                                "bwwrite", line[7])]
    [] OTHER -> [err |-> ErrUnknownPoolType, properties |-> properties]

(* ------------- the external command and its executor ------------------ *)

\* no pool operand on the command line
NoTarget == "<all pools>"

\* What zpool get prints for a property of a pool.  unset: the pool has no
\* number for its sizes and the command prints "-".
HostValue(key, unset) ==
  CASE key = "health" -> "ONLINE"
    [] key = "size"   -> IF unset THEN "-" ELSE "1024"
    [] OTHER          -> "7"

\* One pool's lines of `zpool get -Hpo name,property,value <props>`
GetLines(name, props, unset) ==
  [i \in 1..Len(props) |-> <<name, props[i], HostValue(props[i], unset)>>]

\* One pool's line of `zpool iostat -Hyp`: name, alloc, free, read ops,
\* write ops, read bandwidth, write bandwidth, all of them numbers
IostatLines(name) ==
  << <<name, "512", "512", "120", "80", "4096", "8192">> >>

RECURSIVE Concat(_)
Concat(ss) == IF ss = <<>> THEN <<>> ELSE Head(ss) \o Concat(Tail(ss))

\* The lines zpool prints for an argument list: for the pool operand when
\* there is one, else for every pool of the host, in the host's order.
Zpool(argv, hostPools, unset) ==
  LET targets == IF argv.target = NoTarget THEN hostPools ELSE <<argv.target>>
  IN  Concat([i \in 1..Len(targets) |->
         IF argv.sub = "get" THEN GetLines(targets[i], argv.props, unset)
                             ELSE IostatLines(targets[i])])

\* The last line of a damaged output, as the reader hands it over: a field short
Garbled(line) == SubSeq(line, 1, Len(line) - 1)

\* how one run of the command can go: "ok" prints the pool's values and
\* exits zero; "unset" does too, for a pool that has no number for its
\* sizes (zpool get only); the others are the executor's failures
Runs(kind) ==
  {"ok", "pipe", "start", "garbled", "exit"}
    \cup (IF kind = PoolIostat THEN {} ELSE {"unset"})

RECURSIVE readLines(_, _, _, _, _)
\* the read loop of execute: hand each line to the handler, stop at the
\* first error.  accepted: the lines the handler took, in order.
readLines(kind, properties, pool, lines, accepted) ==
  IF lines = <<>>
  THEN [err |-> Nil, properties |-> properties, accepted |-> accepted]
  ELSE LET r == processLine(kind, properties, pool, Head(lines))
       IN  IF r.err # Nil
           THEN [err |-> r.err, properties |-> r.properties, accepted |-> accepted]
           ELSE readLines(kind, r.properties, pool, Tail(lines),
                          Append(accepted, Head(lines)))

\* execute(pool, handler, cmd, args...): open the pipe, start the process,
\* read every line into the handler, wait for the exit status.
\* env.appendsTarget: whether the executor passes the pool as the command's
\* last operand; env.run: what this run of the process does.
execute(pool, handler, argv, env) ==
  LET full  == IF env.appendsTarget THEN [argv EXCEPT !.target = pool] ELSE argv
      out   == Zpool(full, env.hostPools, env.run = "unset")
      lines == IF env.run = "garbled" /\ out # <<>>
               THEN SubSeq(out, 1, Len(out) - 1) \o <<Garbled(out[Len(out)])>>
               ELSE out
  IN  IF env.run = "pipe"
      THEN [err |-> ErrPipe, properties |-> handler.properties, accepted |-> <<>>]
      ELSE IF env.run = "start"
      THEN [err |-> ErrStart, properties |-> handler.properties, accepted |-> <<>>]
      ELSE LET r == readLines(handler.kind, handler.properties, pool, lines, <<>>)
           IN  IF r.err # Nil THEN r
               ELSE IF env.run = "exit" THEN [r EXCEPT !.err = ErrExit]
               ELSE r

\* poolImpl.Properties(props...)
Properties(p, props, env) ==
  LET handler == newPoolPropertiesImpl(p.kind)
  IN  CASE p.kind = PoolProps ->
             execute(p.name, handler,
                     [sub |-> "get", props |-> props, target |-> NoTarget], env)
        [] p.kind = PoolIostat ->
             execute(p.name, handler,
                     [sub |-> "iostat", props |-> <<>>, target |-> NoTarget], env)
        [] OTHER ->
             [err |-> ErrUnknownPoolType, properties |-> handler.properties,
              accepted |-> <<>>]

\* newPoolImpl, as Client.Pool(name, kind) builds it
newPoolImpl(name, kind) == [name |-> name, kind |-> kind]

(* ---------------- registry lookup, transforms, push ------------------- *)

\* strconv.ParseFloat on the raw values the commands of this model print
ParseFloat(raw) ==
  CASE raw = "7"    -> [value |-> 7, err |-> Nil]
    [] raw = "80"   -> [value |-> 80, err |-> Nil]
    [] raw = "120"  -> [value |-> 120, err |-> Nil]
    [] raw = "512"  -> [value |-> 512, err |-> Nil]
    [] raw = "1024" -> [value |-> 1024, err |-> Nil]
    [] raw = "4096" -> [value |-> 4096, err |-> Nil]
    [] raw = "8192" -> [value |-> 8192, err |-> Nil]
    [] OTHER        -> [value |-> 0, err |-> ErrTransform]

\* the health codes, in their documented order
HealthCodes ==
  <<"ONLINE", "DEGRADED", "FAULTED", "OFFLINE", "UNAVAIL", "REMOVED", "SUSPENDED">>

\* the transform functions: raw string -> (value, error).  A percentage is
\* kept as the pair (number, 100), a health status as its code.
Transform(which, raw) ==
  CASE which \in {"numeric", "multiplier"} -> ParseFloat(raw)
    [] which = "percentage" ->
         LET r == ParseFloat(raw)
         IN  IF r.err # Nil THEN r ELSE [value |-> <<r.value, 100>>, err |-> Nil]
    [] which = "bool" ->
         IF raw = "on" THEN [value |-> 1, err |-> Nil]
         ELSE IF raw = "off" THEN [value |-> 0, err |-> Nil]
         ELSE [value |-> 0, err |-> ErrTransform]
    [] which = "healthcode" ->
         IF \E i \in DOMAIN HealthCodes : HealthCodes[i] = raw
         THEN [value |-> (CHOOSE i \in DOMAIN HealthCodes : HealthCodes[i] = raw) - 1,
               err |-> Nil]
         ELSE [value |-> 0, err |-> ErrTransform]
    [] OTHER -> [value |-> 0, err |-> ErrTransform]

\* poolProperties.find(k): the registered property, or a not-found error.
\* With the error comes a value that is no entry of the registry; it only
\* remembers the name that was looked up.
find(k) ==
  IF k \in DOMAIN poolPropertiesStore
  THEN [prop |-> poolPropertiesStore[k] @@ [found |-> TRUE], err |-> Nil]
  ELSE [prop |-> [name |-> k, transform |-> "numeric", found |-> FALSE],
        err |-> ErrUnsupportedProperty]

\* what prop.push(ch, v, labelValues...) can do: the returned error and the
\* metrics it sent on ch.  A registered property transforms the value and
\* sends one metric, or returns the transform's error and sends nothing.
\* For the value find returns beside its error the text fixes no behaviour:
\* push then either fails or sends a metric under the looked-up name.
pushOutcomes(prop, v, labelValues) ==
  LET t    == Transform(prop.transform, v)
      sent == [err |-> Nil,
               metrics |-> <<[name |-> prop.name, labels |-> labelValues,
                              value |-> t.value]>>]
      fail == [err |-> ErrTransform, metrics |-> <<>>]
      none == [err |-> ErrUnsupportedProperty, metrics |-> <<>>]
  IN  IF prop.found
      THEN IF t.err # Nil THEN {fail} ELSE {sent}
      ELSE {none} \cup (IF t.err # Nil THEN {} ELSE {sent})

(* ------------------------ collector/pool.go --------------------------- *)

\* the property lists a collector of a kind is configured with
PropLists(kind) ==
  IF kind = PoolIostat THEN {defaultPoolIostats} ELSE PropConfigs

\* labelValues := []string{pool}, pool being the goroutine's parameter
labelValues(pool) == <<pool>>

\* a nil error value, in the shape of the records the error channel carries:
\* the error and, for reading traces, the goroutine it came from
NilError == [from |-> 0, err |-> Nil]

\* a goroutine that reads the loop's variable instead of its own parameter
\* sees the pool the loop reached last
goArgShared(ps, i) == ps[Len(ps)]

\* go func(pool string){...}(pool): the pool the i-th goroutine is given
goArg(ps, i) == ps[i]

\* the error check after Properties left out: the map is ranged over anyway
afterPropertiesUnchecked(r) == [err |-> Nil, keys |-> DOMAIN r.properties]

\* lines 188-194 after Properties returned r: the error to return, or Nil
\* and the keys of the map to range over
afterProperties(r) ==
  IF r.err # Nil THEN [err |-> r.err, keys |-> {}]
  ELSE [err |-> Nil, keys |-> DOMAIN r.properties]

\* the error of push dropped: the loop goes on
afterPushIgnored(o) == Nil

\* lines 199-201: the error that ends the loop and is returned, or Nil
afterPush(o) == o.err

\* an iteration that leaves its key to be visited again
afterVisitKept(keys, k) == keys

\* the range loop visits each key of the map once: the keys left after k
afterVisit(keys, k) == keys \ {k}

\* a select that never looks at the channel
selectDefault(ch) == [ret |-> NilError, errChan |-> ch]

\* lines 178-183: the select takes a queued error if there is one, else
\* its default case returns nil
selectErr(ch) ==
  IF ch # <<>> THEN [ret |-> Head(ch), errChan |-> Tail(ch)]
  ELSE [ret |-> NilError, errChan |-> ch]

\* an unbuffered error channel
errChanUnbuffered(ps) == 0

\* the nil Collector, in the shape of a poolCollector
NoCollector == [kind |-> Nil, props |-> <<>>]

\* a constructor that takes any kind
newPoolCollectorAnyKind(kind, props) ==
  [collector |-> [kind |-> kind, props |-> props], err |-> Nil]

\* newPoolCollector(kind, l, c, props): the collector and the error
newPoolCollector(kind, props) ==
  IF kind \in {PoolProps, PoolIostat}
  THEN [collector |-> [kind |-> kind, props |-> props], err |-> Nil]
  ELSE [collector |-> NoCollector, err |-> ErrUnknownPoolType]

\* make(chan error, 1): room for one error whatever the number of pools
errChanOne(ps) == 1

\* make(chan error, len(pools)): the capacity of update's error channel
errChanCap(ps) == Len(ps)

\* prop.desc: the descriptor of a property's metric
desc(prop) == [fqName |-> prop.name]

\* the loop body of describe without its continue: the warning is logged
\* and the descriptor of what find returned is sent all the same
describeKeyNoContinue(k) ==
  LET f == find(k)
  IN  [warn |-> f.err # Nil, send |-> <<desc(f.prop)>>]

\* lines 155-160, the loop body of describe for key k: whether the warning
\* is logged and the descriptors sent on ch
describeKey(k) ==
  LET f == find(k)
  IN  IF f.err # Nil THEN [warn |-> TRUE, send |-> <<>>]
      ELSE [warn |-> FALSE, send |-> <<desc(f.prop)>>]

Tasks == 1..MaxPools

VARIABLES
  appendsTarget, \* whether execute passes the pool as the last operand
  pcMain,        \* where the caller of newPoolCollector / update stands
  collector,     \* the constructed poolCollector, or NoCollector
  ctorErr,       \* the error of the constructor
  pools,         \* update's parameter
  idx,           \* the position of update's range loop over pools
  wg,            \* the WaitGroup's counter
  errChan,       \* the buffered error channel: queued [from, err]
  ret,           \* what update returned: NilError or a queued [from, err]
  pc,            \* per goroutine of update: its position
  arg,           \* per goroutine: its parameter pool
  env,           \* per goroutine: how its run of the command went
  handler,       \* per goroutine: the map of the handler Properties returned
  accepted,      \* per goroutine: the lines processLine took, in order
  todo,          \* per goroutine: keys the range loop has not visited
  visited,       \* per goroutine: keys the range loop visited, in order
  emitted,       \* per goroutine: the metrics it sent on ch, in order
  err,           \* per goroutine: the error updatePoolMetrics returns
  warned,        \* per goroutine: keys it logged a warning for
  dpos,          \* describe: the position of its loop over c.props
  descs,         \* describe: the descriptors it sent on ch, in order
  dwarned,       \* describe: the keys it logged a warning for, in order
  hKind,         \* a handler on its own: its kind
  hPool,         \* a handler on its own: the pool it was made for
  hMap,          \* a handler on its own: its map
  hPrev,         \* a handler on its own: its map before the last line
  hLines,        \* a handler on its own: the lines handed to processLine
  hErr           \* a handler on its own: what the last processLine returned

vars == <<appendsTarget, pcMain, collector, ctorErr, pools, idx, wg, errChan,
          ret, pc, arg, env, handler, accepted, todo, visited, emitted, err,
          warned, dpos, descs, dwarned, hKind, hPool, hMap, hPrev, hLines,
          hErr>>

descVars == <<dpos, descs, dwarned>>
lineVars == <<hKind, hPool, hMap, hPrev, hLines, hErr>>
mainVars == <<pcMain, collector, ctorErr, pools, idx, wg, errChan, ret>>
taskVars == <<pc, arg, env, handler, accepted, todo, visited, emitted, err, warned>>

NoEnv == "not run"

\* nothing constructed, no pass of update begun
NoPass ==
  /\ pcMain = "new"
  /\ collector = NoCollector
  /\ ctorErr = Nil
  /\ pools = <<>>
  /\ idx = 1
  /\ wg = 0
  /\ errChan = <<>>
  /\ ret = NilError
  /\ pc = [t \in Tasks |-> "idle"]
  /\ arg = [t \in Tasks |-> Nil]
  /\ env = [t \in Tasks |-> NoEnv]
  /\ handler = [t \in Tasks |-> <<>>]
  /\ accepted = [t \in Tasks |-> <<>>]
  /\ todo = [t \in Tasks |-> {}]
  /\ visited = [t \in Tasks |-> <<>>]
  /\ emitted = [t \in Tasks |-> <<>>]
  /\ err = [t \in Tasks |-> Nil]
  /\ warned = [t \in Tasks |-> {}]
  /\ dpos = 1
  /\ descs = <<>>
  /\ dwarned = <<>>

\* newPoolPropertiesImpl(pool, kind): a handler that has seen no line
NewHandler(pool, kind) ==
  /\ hKind = kind
  /\ hPool = pool
  /\ hMap = newPoolPropertiesImpl(kind).properties
  /\ hPrev = hMap
  /\ hLines = <<>>
  /\ hErr = Nil

Init ==
  /\ appendsTarget \in BOOLEAN
  /\ NoPass
  /\ NewHandler(PoolNames[1], PoolProps)

\* the registration's factory calls newPoolCollector with its kind and the
\* configured property list
NewCollector(kind, props) ==
  /\ pcMain = "new"
  /\ LET r == newPoolCollector(kind, props)
     IN  /\ collector' = r.collector
         /\ ctorErr' = r.err
         /\ pcMain' = IF r.err = Nil THEN "describe" ELSE "rejected"
  /\ UNCHANGED <<lineVars, descVars>>
  /\ UNCHANGED <<appendsTarget, pools, idx, wg, errChan, ret>>
  /\ UNCHANGED taskVars

\* describe, one iteration of `for _, k := range c.props` (lines 154-160).
\* The registry asks a collector for its descriptors when the collector is
\* registered, before the first pass; ch is always taken.
DescribeStep ==
  /\ pcMain = "describe"
  /\ dpos <= Len(collector.props)
  /\ LET d == describeKey(collector.props[dpos])
     IN  /\ descs' = descs \o d.send
         /\ dwarned' = IF d.warn THEN Append(dwarned, collector.props[dpos])
                                 ELSE dwarned
  /\ dpos' = dpos + 1
  /\ UNCHANGED <<appendsTarget, lineVars, mainVars, taskVars>>

\* describe returns when c.props is exhausted (line 162)
DescribeEnd ==
  /\ pcMain = "describe"
  /\ dpos > Len(collector.props)
  /\ pcMain' = "ready"
  /\ UNCHANGED <<appendsTarget, lineVars, descVars, taskVars>>
  /\ UNCHANGED <<collector, ctorErr, pools, idx, wg, errChan, ret>>

\* update is called with the pool names: lines 165-166
Update(ps) ==
  /\ pcMain = "ready"
  /\ pools' = ps
  /\ errChan' = <<>>
  /\ wg' = 0
  /\ idx' = 1
  /\ pcMain' = "loop"
  /\ UNCHANGED <<lineVars, descVars>>
  /\ UNCHANGED <<appendsTarget, collector, ctorErr, ret>>
  /\ UNCHANGED taskVars

\* one iteration of the loop: wg.Add(1); go func(pool){...}(pool)
Spawn ==
  /\ pcMain = "loop"
  /\ idx <= Len(pools)
  /\ wg' = wg + 1
  /\ pc' = [pc EXCEPT ![idx] = "start"]
  /\ arg' = [arg EXCEPT ![idx] = goArg(pools, idx)]
  /\ idx' = idx + 1
  /\ UNCHANGED <<lineVars, descVars>>
  /\ UNCHANGED <<appendsTarget, pcMain, collector, ctorErr, pools, errChan, ret>>
  /\ UNCHANGED <<env, handler, accepted, todo, visited, emitted, err, warned>>

\* updatePoolMetrics, lines 187-193: c.client.Pool(pool, c.kind), Properties,
\* return its error or start ranging over the map.  The whole run of the
\* command is one step: it touches nothing the goroutines share.  The host
\* holds the pools the discovery collaborator listed for this pass.
Collect(t, run) ==
  /\ pc[t] = "start"
  /\ LET e == [run |-> run, appendsTarget |-> appendsTarget, hostPools |-> pools]
         r == Properties(newPoolImpl(arg[t], collector.kind), collector.props, e)
     IN  /\ env' = [env EXCEPT ![t] = run]
         /\ handler' = [handler EXCEPT ![t] = r.properties]
         /\ accepted' = [accepted EXCEPT ![t] = r.accepted]
         /\ LET a == afterProperties(r)
            IN  /\ err' = [err EXCEPT ![t] = a.err]
                /\ pc' = [pc EXCEPT ![t] = IF a.err # Nil THEN "report" ELSE "range"]
                /\ todo' = [todo EXCEPT ![t] = a.keys]
  /\ UNCHANGED <<lineVars, descVars>>
  /\ UNCHANGED <<appendsTarget, arg, visited, emitted, warned>>
  /\ UNCHANGED mainVars

\* what one iteration of the range loop does with key k: lines 195-201.
\* warn: whether the warning is logged; push: whether prop.push is called.
iteration(k) ==
  LET f == find(k)
  IN  [prop |-> f.prop, warn |-> f.err # Nil, push |-> TRUE]

\* one iteration of `for k, v := range props.Properties()`: Go visits the
\* keys of a map in an order it does not fix
RangeStep(t, k) ==
  /\ pc[t] = "range"
  /\ k \in todo[t]
  /\ LET it == iteration(k)
     IN  /\ warned' = [warned EXCEPT ![t] = IF it.warn THEN @ \cup {k} ELSE @]
         /\ visited' = [visited EXCEPT ![t] = Append(@, k)]
         /\ todo' = [todo EXCEPT ![t] = afterVisit(@, k)]
         /\ IF it.push
            THEN \E o \in pushOutcomes(it.prop, handler[t][k], labelValues(arg[t])) :
                   /\ emitted' = [emitted EXCEPT ![t] = @ \o o.metrics]
                   /\ err' = [err EXCEPT ![t] = afterPush(o)]
                   /\ pc' = [pc EXCEPT ![t] =
                               IF afterPush(o) # Nil THEN "report" ELSE @]
            ELSE UNCHANGED <<emitted, err, pc>>
  /\ UNCHANGED <<lineVars, descVars>>
  /\ UNCHANGED <<appendsTarget, arg, env, handler, accepted>>
  /\ UNCHANGED mainVars

\* the map is exhausted: return nil (line 204); the goroutine has no error
\* to send and goes on to wg.Done()
RangeEnd(t) ==
  /\ pc[t] = "range"
  /\ todo[t] = {}
  /\ pc' = [pc EXCEPT ![t] = "signal"]
  /\ UNCHANGED <<lineVars, descVars>>
  /\ UNCHANGED <<appendsTarget, arg, env, handler, accepted, todo, visited,
                 emitted, err, warned>>
  /\ UNCHANGED mainVars

\* errChan <- err (line 171): blocks while the channel is full
SendErr(t) ==
  /\ pc[t] = "report"
  /\ Len(errChan) < errChanCap(pools)
  /\ errChan' = Append(errChan, [from |-> t, err |-> err[t]])
  /\ pc' = [pc EXCEPT ![t] = "signal"]
  /\ UNCHANGED <<lineVars, descVars>>
  /\ UNCHANGED <<appendsTarget, pcMain, collector, ctorErr, pools, idx, wg, ret>>
  /\ UNCHANGED <<arg, env, handler, accepted, todo, visited, emitted, err, warned>>

\* wg.Done() placed before the send: the counter drops while the
\* goroutine's error is still to be queued
DoneBeforeSend(t) ==
  /\ pc[t] \in {"report", "signal"}
  /\ wg' = wg - 1
  /\ pc' = [pc EXCEPT ![t] = IF pc[t] = "report" THEN "send late" ELSE "done"]
  /\ UNCHANGED <<lineVars, descVars>>
  /\ UNCHANGED <<appendsTarget, pcMain, collector, ctorErr, pools, idx, errChan, ret>>
  /\ UNCHANGED <<arg, env, handler, accepted, todo, visited, emitted, err, warned>>

\* wg.Done() (line 173)
Done(t) ==
  /\ pc[t] = "signal"
  /\ wg' = wg - 1
  /\ pc' = [pc EXCEPT ![t] = "done"]
  /\ UNCHANGED <<lineVars, descVars>>
  /\ UNCHANGED <<appendsTarget, pcMain, collector, ctorErr, pools, idx, errChan, ret>>
  /\ UNCHANGED <<arg, env, handler, accepted, todo, visited, emitted, err, warned>>

\* update without its wg.Wait(): the loop is left as soon as it ends
WaitSkipped ==
  /\ pcMain = "loop"
  /\ idx > Len(pools)
  /\ pcMain' = "select"
  /\ UNCHANGED <<lineVars, descVars>>
  /\ UNCHANGED <<appendsTarget, collector, ctorErr, pools, idx, wg, errChan, ret>>
  /\ UNCHANGED taskVars

\* wg.Wait() (line 176) returns when the counter is zero
Wait ==
  /\ pcMain = "loop"
  /\ idx > Len(pools)
  /\ wg = 0
  /\ pcMain' = "select"
  /\ UNCHANGED <<lineVars, descVars>>
  /\ UNCHANGED <<appendsTarget, collector, ctorErr, pools, idx, wg, errChan, ret>>
  /\ UNCHANGED taskVars

\* the select of lines 178-183: a queued error if there is one, else nil
Select ==
  /\ pcMain = "select"
  /\ ret' = selectErr(errChan).ret
  /\ errChan' = selectErr(errChan).errChan
  /\ pcMain' = "returned"
  /\ UNCHANGED <<lineVars, descVars>>
  /\ UNCHANGED <<appendsTarget, collector, ctorErr, pools, idx, wg>>
  /\ UNCHANGED taskVars

MainStep ==
  \/ \E kind \in Kinds : \E props \in PropLists(kind) : NewCollector(kind, props)
  \/ DescribeStep
  \/ DescribeEnd
  \/ \E n \in 0..Min(MaxPools, Len(PoolNames)) : Update(SubSeq(PoolNames, 1, n))
  \/ Spawn
  \/ Wait
  \/ Select

TaskStep(t) ==
  \/ \E run \in Runs(collector.kind) : Collect(t, run)
  \/ \E k \in todo[t] : RangeStep(t, k)
  \/ RangeEnd(t)
  \/ SendErr(t)
  \/ Done(t)

Next == MainStep \/ \E t \in Tasks : TaskStep(t)

Spec == Init /\ [][Next]_vars

\* the Go scheduler runs every goroutine that can take a step
FairSpec == Spec /\ WF_vars(MainStep) /\ \A t \in Tasks : WF_vars(TaskStep(t))

(* ------------------- a handler exercised on its own ------------------- *)

\* most lines handed to one handler
MaxLines == 3

\* the pools a handler is made for
HandlerPools == {PoolNames[1], PoolNames[2]}

\* records the reader can hand to processLine: three fields as zpool get
\* prints them, seven as zpool iostat does, and records with a field
\* missing or added, naming one pool or the other
Lines ==
  {<<n, k, v>> : n \in HandlerPools, k \in {"size", "health"}, v \in {"1024", "-"}}
    \cup {<<n, "size">> : n \in HandlerPools}
    \cup {<<n, "512", "512", "120", "80", "4096", "8192">> : n \in HandlerPools}
    \cup {<<>>,
          <<PoolNames[1], "size", "1024", "-">>,
          <<PoolNames[1], "512", "512", "120", "80", "4096">>,
          <<PoolNames[1], "512", "512", "120", "80", "4096", "8192", "0">>}

HandlerInit ==
  /\ appendsTarget = FALSE
  /\ NoPass
  /\ \E pool \in HandlerPools : \E kind \in Kinds : NewHandler(pool, kind)

\* p.processLine(pool, line) on the handler
HandleLine(line) ==
  /\ Len(hLines) < MaxLines
  /\ LET r == processLine(hKind, hMap, hPool, line)
     IN  /\ hErr' = r.err
         /\ hMap' = r.properties
  /\ hPrev' = hMap
  /\ hLines' = Append(hLines, line)
  /\ UNCHANGED <<hKind, hPool>>
  /\ UNCHANGED <<appendsTarget, descVars, mainVars, taskVars>>

HandlerNext == \E line \in Lines : HandleLine(line)

HandlerSpec == HandlerInit /\ [][HandlerNext]_vars

(* ------------------------ reading the state --------------------------- *)

\* the goroutines update has started
Started == {t \in Tasks : pc[t] # "idle"}

Registered(k) == k \in DOMAIN poolPropertiesStore

\* the name of the metric that stands for key k
MetricName(k) == find(k).prop.name

\* the metrics goroutine t sent for key k
MetricsFor(t, k) == {i \in DOMAIN emitted[t] : emitted[t][i].name = MetricName(k)}

\* the key that ended t's range loop with an error, as a set
FailedAt(t) ==
  IF err[t] # Nil /\ visited[t] # <<>> THEN {visited[t][Len(visited[t])]} ELSE {}

\* what Properties returned to goroutine t
PropertiesOf(t) ==
  Properties(newPoolImpl(arg[t], collector.kind), collector.props,
             [run |-> env[t], appendsTarget |-> appendsTarget, hostPools |-> pools])

\* the error record goroutine t hands to the channel
ErrorOf(t) == [from |-> t, err |-> err[t]]

(* ------------------------------ C1 ------------------------------------ *)

\* C1: for a key of a resource's PropertyMap that is not in the registry,
\* updatePoolMetrics logs a warning, emits no metric for the key, and the
\* resource's task does not fail because of the key (so the keys after it
\* are still processed).
C1_UnresolvedKeySkipped ==
  \A t \in Tasks : \A i \in DOMAIN visited[t] :
    LET k == visited[t][i]
    IN  ~Registered(k) =>
          /\ k \in warned[t]
          /\ MetricsFor(t, k) = {}
          /\ k \notin FailedAt(t)

(* ------------------------------ C2 ------------------------------------ *)

\* C2: when update returns from a pass in which at least one task failed,
\* it returns one error, that error is the error of one of the failed
\* tasks, and for every task that succeeded a metric of each key of its
\* PropertyMap, labelled with its pool, is in the output stream.
C2_PartialFailure ==
  (pcMain = "returned" /\ \E t \in Started : err[t] # Nil) =>
    /\ ret.err # Nil
    /\ \E t \in Started : err[t] # Nil /\ ret = ErrorOf(t)
    /\ \A t \in Started : err[t] = Nil =>
         \A k \in DOMAIN handler[t] :
           \E i \in MetricsFor(t, k) : emitted[t][i].labels = <<pools[t]>>

\* a pass has returned in which one task failed and another succeeded and
\* emitted metrics
C2_Witness ==
  /\ pcMain = "returned"
  /\ \E t \in Started : err[t] # Nil
  /\ \E t \in Started : err[t] = Nil /\ emitted[t] # <<>>

(* ------------------------------ C3 ------------------------------------ *)

\* the goroutines of the pass, one per pool of the list
Pass == 1..Len(pools)

\* update has returned and every goroutine of the pass is finished
PassDone == pcMain = "returned" /\ \A t \in Pass : pc[t] = "done"

\* the most keys a PropertyMap can hold
MaxKeys ==
  Cardinality(DOMAIN poolPropertiesStore \cup UNION {Range(p) : p \in PropConfigs})

\* the steps the caller has left at most
MainLeft ==
  CASE pcMain = "new"      -> MaxKeys + 5
    [] pcMain = "describe" -> Len(collector.props) - dpos + 5
    [] pcMain = "ready"  -> 3
    [] pcMain = "loop"   -> 2
    [] pcMain = "select" -> 1
    [] OTHER             -> 0

\* the steps goroutine t has left at most
TaskLeft(t) ==
  CASE pc[t] = "idle"   -> MaxKeys + 5
    [] pc[t] = "start"  -> MaxKeys + 4
    [] pc[t] = "range"  -> Cardinality(todo[t]) + 3
    [] pc[t] = "report" -> 2
    [] pc[t] = "signal" -> 1
    [] OTHER            -> 0

RECURSIVE Sum(_, _)
Sum(f, S) == IF S = {} THEN 0 ELSE LET x == CHOOSE y \in S : TRUE
                                   IN  f[x] + Sum(f, S \ {x})

\* a bound on the steps left in the pass
StepsLeft == MainLeft + Sum([t \in Tasks |-> TaskLeft(t)], Tasks)

\* goroutine t can take a step: the one operation that can block it is
\* the send on the error channel
CanStep(t) ==
  \/ pc[t] \in {"start", "range", "signal"}
  \/ pc[t] = "report" /\ Len(errChan) < errChanCap(pools)

\* update can take a step: the one operation that can block it is wg.Wait()
MainCanStep ==
  \/ pcMain = "loop" /\ (idx <= Len(pools) \/ wg = 0)
  \/ pcMain = "select"

\* CanStep and MainCanStep say when the steps of the pass are enabled
CanStepIsEnabled ==
  /\ \A t \in Tasks : CanStep(t) <=> ENABLED TaskStep(t)
  /\ pcMain \in {"loop", "select"} => (MainCanStep <=> ENABLED MainStep)

\* C3: a pass of update over any list of pools, with every command run
\* ending and the output stream always taken, returns with every one of its
\* goroutines finished, whichever of them fail.  Stated as the facts that
\* give it under fair scheduling: while update is in its loop, its wait or
\* its select, update or some goroutine can take a step (no deadlock, no
\* goroutine blocked for ever); every step lowers the bound on the steps
\* left (no goroutine runs for ever); and update has not returned before
\* every goroutine is done.
C3_PassCompletes ==
  /\ [](pcMain \in {"loop", "select"} => MainCanStep \/ \E t \in Tasks : CanStep(t))
  /\ [](pcMain = "returned" => PassDone)
  /\ [][StepsLeft' < StepsLeft]_vars

\* C3 as a property of the fair behaviours: once update has begun its
\* loop, it eventually has returned with every goroutine finished
C3_Eventually == (pcMain = "loop") ~> PassDone

\* a pass over two or more pools has returned and every task of it failed
C3_Witness ==
  /\ pcMain = "returned"
  /\ Len(pools) >= 2
  /\ \A t \in Pass : pc[t] = "done" /\ err[t] # Nil

(* ------------------------------ C4 ------------------------------------ *)

\* the lines the command prints about the pool of goroutine t alone
OwnLines(t) ==
  Zpool([sub |-> IF collector.kind = PoolProps THEN "get" ELSE "iostat",
         props |-> IF collector.kind = PoolProps THEN collector.props ELSE <<>>,
         target |-> arg[t]], pools, FALSE)

\* the keys the line handler produces for the pool of goroutine t
ProducedKeys(t) ==
  DOMAIN readLines(collector.kind, <<>>, arg[t], OwnLines(t), <<>>).properties

\* C4: when update returns from a pass in which every command ran without
\* fault, it returns no error and each goroutine has sent exactly one metric
\* for each registered key produced for its pool, and no other metric.
C4_CompleteWithoutFailure ==
  (pcMain = "returned" /\ \A t \in Pass : env[t] = "ok") =>
    /\ ret.err = Nil
    /\ \A t \in Pass :
         /\ \A k \in ProducedKeys(t) :
              Registered(k) => Cardinality(MetricsFor(t, k)) = 1
         /\ \A i \in DOMAIN emitted[t] :
              \E k \in ProducedKeys(t) :
                Registered(k) /\ emitted[t][i].name = MetricName(k)

(* ------------------------------ C5 ------------------------------------ *)

\* C5: for the iostats kind, after a valid 7-field line of the queried pool
\* the PropertyMap holds opread, opwrite, bwread and bwwrite, each with its
\* own column (fields 3, 4, 5 and 6 of the line).
C5_IostatColumns ==
  \A t \in Tasks :
    (collector.kind = PoolIostat /\ accepted[t] # <<>>) =>
      LET line == accepted[t][Len(accepted[t])]
      IN  handler[t] = [k \in {"opread", "opwrite", "bwread", "bwwrite"} |->
                          CASE k = "opread"  -> line[4]
                            [] k = "opwrite" -> line[5]
                            [] k = "bwread"  -> line[6]
                            [] k = "bwwrite" -> line[7]]

(* ------------------------------ C6 ------------------------------------ *)

\* the key a metric of goroutine t stands for
KeyOf(t, m) == CHOOSE k \in DOMAIN handler[t] : MetricName(k) = m.name

\* the position, among the lines the handler took, of the last line that
\* wrote key k: a properties line writes its field 1, an iostats line
\* writes all of its keys
LineOf(t, k) ==
  CHOOSE i \in DOMAIN accepted[t] :
    /\ collector.kind = PoolProps => accepted[t][i][2] = k
    /\ \A j \in DOMAIN accepted[t] :
         (collector.kind = PoolProps => accepted[t][j][2] = k) => j <= i

\* C6: within one resource's task, if the line for key k1 was processed
\* before the line for key k2, the metric for k1 is emitted before the
\* metric for k2 (stated for the keys the registry holds, the ones that are
\* meant to have a metric).
C6_LineOrder ==
  \A t \in Tasks : \A i, j \in DOMAIN emitted[t] :
    LET ki == KeyOf(t, emitted[t][i])
        kj == KeyOf(t, emitted[t][j])
    IN  (Registered(ki) /\ Registered(kj) /\ LineOf(t, ki) < LineOf(t, kj))
          => i < j

\* C6 as amended: a task pushes metrics only after Properties has returned
\* without error, that is after every line of the command was processed;
\* it then pushes for each key of the PropertyMap at most once, in the
\* order the range over the map visits the keys, which need not be the
\* order of the lines.
C6_MapOrder ==
  \A t \in Tasks :
    /\ NoDup(visited[t])
    /\ Range(visited[t]) \subseteq DOMAIN handler[t]
    /\ \A i \in DOMAIN emitted[t] :
         \E k \in Range(visited[t]) :
           /\ emitted[t][i].name = MetricName(k)
           /\ Cardinality(MetricsFor(t, k)) = 1
    /\ emitted[t] # <<>> => PropertiesOf(t).err = Nil

\* a task has pushed the metrics of two registered keys in the reverse of
\* the order of their lines
C6_Witness ==
  \E t \in Tasks : \E i, j \in DOMAIN emitted[t] :
    LET ki == KeyOf(t, emitted[t][i])
        kj == KeyOf(t, emitted[t][j])
    IN  /\ i < j
        /\ Registered(ki) /\ Registered(kj)
        /\ LineOf(t, kj) < LineOf(t, ki)

(* ------------------------------ C7 ------------------------------------ *)

\* C7: a task whose Properties call failed (invalid line, no output
\* stream, process not started, non-zero exit) emits no metric, also when
\* lines had been parsed into the map before the failure.
C7_NoMetricAfterFailedProperties ==
  \A t \in Tasks :
    (pc[t] \notin {"idle", "start"} /\ PropertiesOf(t).err # Nil) =>
      emitted[t] = <<>>

\* a task is done whose Properties call failed after lines were parsed
\* into the map, and it emitted nothing
C7_Witness ==
  \E t \in Tasks :
    /\ pc[t] = "done"
    /\ PropertiesOf(t).err # Nil
    /\ handler[t] # <<>>
    /\ emitted[t] = <<>>

(* ------------------------------ C8 ------------------------------------ *)

\* the registered keys goroutine t visited whose raw value does not
\* transform
TransformFailures(t) ==
  {k \in Range(visited[t]) :
     Registered(k) /\ Transform(find(k).prop.transform, handler[t][k]).err # Nil}

\* C8: when the transform of a key's value fails in the task of a resource,
\* no metric is emitted for that key, the key is the last one the task
\* processes, the task hands the error to the error channel and the pass
\* returns a non-nil error.
C8_TransformErrorIsFatal ==
  \A t \in Tasks : \A k \in TransformFailures(t) :
    /\ MetricsFor(t, k) = {}
    /\ visited[t][Len(visited[t])] = k
    /\ err[t] = ErrTransform
    /\ pc[t] \in {"report", "signal", "done"}
    /\ pc[t] \in {"signal", "done"} =>
         \/ ErrorOf(t) \in Range(errChan)
         \/ pcMain = "returned" /\ ret = ErrorOf(t)
    /\ pcMain = "returned" => ret.err # Nil

\* a pass has returned in which a task hit a transform failure after it
\* had emitted the metric of another key
C8_Witness ==
  /\ pcMain = "returned"
  /\ \E t \in Tasks : TransformFailures(t) # {} /\ emitted[t] # <<>>

(* ------------------------------ C9 ------------------------------------ *)

\* C9: every metric a task emits carries exactly one label value, the name
\* of the pool the task was started for, which is a pool of the pass's list.
C9_LabelIsOwnPool ==
  \A t \in Tasks : \A i \in DOMAIN emitted[t] :
    /\ t \in Pass
    /\ emitted[t][i].labels = <<pools[t]>>

\* two tasks of one pass have both emitted metrics
C9_Witness ==
  \E t, u \in Tasks : t # u /\ emitted[t] # <<>> /\ emitted[u] # <<>>

(* ------------------------------ C10 ----------------------------------- *)

\* C10: newPoolCollector returns an error and no collector for a kind other
\* than properties and iostats, so no task of a pass ever takes the
\* unknown-kind branch of Properties or processLine.
C10_UnknownKindRejected ==
  /\ pcMain = "rejected" => collector = NoCollector /\ ctorErr # Nil
  /\ pcMain \notin {"new", "rejected"} =>
       collector.kind \in {PoolProps, PoolIostat} /\ ctorErr = Nil
  /\ \A t \in Tasks :
       pc[t] \notin {"idle", "start"} => PropertiesOf(t).err # ErrUnknownPoolType

\* the constructor has turned down a kind
C10_Witness == pcMain = "rejected" /\ ctorErr = ErrUnknownPoolType

(* ------------------------------ C11 ----------------------------------- *)

\* the line handed to the handler last
LastLine == hLines[Len(hLines)]

\* C11: processLine returns the invalid-output error exactly for a line
\* whose field count differs from the kind's required count (3 for
\* properties, 7 for iostats, which is also what getFieldsPerRecord tells
\* the reader) or whose first field is not the handler's pool; it then
\* leaves the map as it was; and every value in the map was taken from a
\* line naming the handler's pool.
C11_InvalidOutputExact ==
  (hLines # <<>> /\ hKind \in {PoolProps, PoolIostat}) =>
    LET required == IF hKind = PoolProps THEN 3 ELSE 7
        bad == Len(LastLine) # required \/ LastLine[1] # hPool
    IN  /\ getFieldsPerRecord(hKind) = required
        /\ hErr = ErrInvalidOutput <=> bad
        /\ hErr = Nil <=> ~bad
        /\ bad => hMap = hPrev
        /\ \A k \in DOMAIN hMap : \E i \in DOMAIN hLines :
             /\ Len(hLines[i]) = required
             /\ hLines[i][1] = hPool
             /\ \E j \in 2..required : hLines[i][j] = hMap[k]

\* a handler that holds values was handed a line with the right number of
\* fields that names another pool, and refused it
C11_Witness ==
  /\ hKind \in {PoolProps, PoolIostat}
  /\ hLines # <<>>
  /\ hMap # <<>>
  /\ Len(LastLine) = getFieldsPerRecord(hKind)
  /\ LastLine[1] # hPool
  /\ hErr = ErrInvalidOutput

(* ------------------------------ C12 ----------------------------------- *)

\* a properties line (name, k, v) that names the handler's pool
WellFormed(line) == Len(line) = 3 /\ line[1] = hPool

\* the position of the last line handed over that carries key k
LastWith(k) ==
  CHOOSE i \in DOMAIN hLines :
    /\ hLines[i][2] = k
    /\ \A j \in DOMAIN hLines : hLines[j][2] = k => j <= i

\* C12: for the properties kind, after any sequence of well-formed lines
\* the map holds exactly the keys that occurred, each with the value of the
\* last line carrying it; and processing one well-formed line (name, k, v)
\* leaves every entry but the one for k as it was.
C12_LastWriteWins ==
  hKind = PoolProps =>
    /\ (\A i \in DOMAIN hLines : WellFormed(hLines[i])) =>
         /\ DOMAIN hMap = {hLines[i][2] : i \in DOMAIN hLines}
         /\ \A k \in DOMAIN hMap : hMap[k] = hLines[LastWith(k)][3]
    /\ (hLines # <<>> /\ WellFormed(LastLine)) =>
         /\ DOMAIN hMap = DOMAIN hPrev \cup {LastLine[2]}
         /\ hMap[LastLine[2]] = LastLine[3]
         /\ \A k \in DOMAIN hPrev \ {LastLine[2]} : hMap[k] = hPrev[k]

\* three well-formed lines were processed: a key, another key, and the
\* first key again with another value
C12_Witness ==
  /\ hKind = PoolProps
  /\ Len(hLines) = 3
  /\ \A i \in DOMAIN hLines : WellFormed(hLines[i])
  /\ hLines[1][2] = hLines[3][2]
  /\ hLines[1][3] # hLines[3][3]
  /\ hLines[2][2] # hLines[1][2]

(* ------------------------------ C13 ----------------------------------- *)

\* goroutine t is between its start and its wg.Done()
Running(t) == pc[t] \in {"start", "range", "report", "signal"}

\* what goroutine u has done and has left to do
Progress(u) == <<pc[u], arg[u], env[u], handler[u], todo[u], visited[u],
                 emitted[u], err[u]>>

\* C13: update is past its wait only when no goroutine it started is still
\* running, whether or not some of them failed, and by then every pool of
\* the list had its goroutine, which ran the command for it and, unless it
\* failed itself, went through its whole map; the step in which one
\* goroutine fails changes nothing of any other goroutine, and a running
\* goroutine can always take its next step, whatever the others did.
C13_WaitsForAll ==
  /\ [](pcMain \in {"select", "returned"} =>
          /\ \A t \in Tasks : ~Running(t)
          /\ \A t \in Pass :
               /\ pc[t] = "done" /\ arg[t] = pools[t] /\ env[t] # NoEnv
               /\ err[t] = Nil => todo[t] = {} /\ Range(visited[t]) = DOMAIN handler[t])
  /\ [](\A u \in Tasks : Running(u) => CanStep(u))
  /\ [][\A t, u \in Tasks :
          (t # u /\ err[t] = Nil /\ err'[t] # Nil) => Progress(u)' = Progress(u)]_vars

\* update is past its wait after a pass in which one goroutine failed in
\* Properties and another went through its whole map
C13_Witness ==
  /\ pcMain = "select"
  /\ \E t, u \in Pass :
       /\ err[t] # Nil /\ visited[t] = <<>>
       /\ err[u] = Nil /\ emitted[u] # <<>>

(* ------------------------------ C14 ----------------------------------- *)

\* the errors of goroutine t that are queued on the channel
QueuedFrom(t) == {i \in DOMAIN errChan : errChan[i].from = t}

\* C14: the error channel has room for as many errors as the pass has
\* pools and never holds more; a goroutine has at most one error on it, and
\* none while it is about to send; and a goroutine about to send finds the
\* channel not full, so its send does not block, however many goroutines
\* failed before it and although update reads nothing before its wait ends.
C14_SendNeverBlocks ==
  /\ errChanCap(pools) = Len(pools)
  /\ Len(errChan) <= errChanCap(pools)
  /\ \A t \in Tasks :
       /\ Cardinality(QueuedFrom(t)) <= 1
       /\ pc[t] = "report" =>
            /\ QueuedFrom(t) = {}
            /\ Len(errChan) < errChanCap(pools)
  /\ pcMain = "loop" =>
       \A t \in Tasks : (pc[t] \in {"signal", "done"} /\ err[t] # Nil) =>
                           Cardinality(QueuedFrom(t)) = 1

\* every goroutine of a pass over two or more pools failed and queued its
\* error, and update has not read the channel yet
C14_Witness ==
  /\ pcMain = "loop"
  /\ Len(pools) >= 2
  /\ Len(errChan) = Len(pools)
  /\ \A t \in Pass : QueuedFrom(t) # {}

(* ------------------------------ C15 ----------------------------------- *)

\* the goroutines of the pass whose updatePoolMetrics returned an error
Failed == {t \in Pass : err[t] # Nil}

\* C15: update returns nil exactly when no goroutine of the pass failed.
\* When the wait has ended, the error of every failed goroutine is on the
\* channel (it was queued before that goroutine's wg.Done()), so the
\* channel is empty exactly when none failed, and what the select returns
\* is nil in that case and a failed goroutine's error otherwise.
C15_NilIffNoFailure ==
  /\ \A t \in Tasks : (pc[t] = "done" /\ err[t] # Nil /\ pcMain \in {"loop", "select"}) =>
                         ErrorOf(t) \in Range(errChan)
  /\ pcMain = "select" =>
       /\ errChan = <<>> <=> Failed = {}
       /\ \A t \in Failed : ErrorOf(t) \in Range(errChan)
       /\ \A i \in DOMAIN errChan : errChan[i].from \in Failed
  /\ pcMain = "returned" =>
       /\ ret.err = Nil <=> Failed = {}
       /\ ret = NilError <=> Failed = {}
       /\ ret.err # Nil => ret.from \in Failed

\* update returned the error of the one goroutine that failed, which
\* failed in its range loop, in a pass over two or more pools
C15_Witness ==
  /\ pcMain = "returned"
  /\ Len(pools) >= 2
  /\ Cardinality(Failed) = 1
  /\ \A t \in Failed : ret = ErrorOf(t) /\ visited[t] # <<>>

(* ------------------------------ C16 ----------------------------------- *)

\* the configured keys describe's loop has been through, in order
Described == SubSeq(collector.props, 1, dpos - 1)

\* those of them the registry holds, and those it does not
Resolved == SelectSeq(Described, LAMBDA k : k \in DOMAIN poolPropertiesStore)
Unresolved == SelectSeq(Described, LAMBDA k : k \notin DOMAIN poolPropertiesStore)

\* C16: describe sends one descriptor for each configured key the registry
\* holds, in the order of the configured list, and for a key the registry
\* does not hold it logs a warning, sends nothing and goes on with the next
\* key: whatever the position of its loop, the descriptors sent are those
\* of the resolving keys passed, in order, the warnings are for the other
\* keys passed, and describe returns only when it has passed every key.
C16_DescribeInOrder ==
  /\ dpos \in 1..(Len(collector.props) + 1)
  /\ descs = [i \in DOMAIN Resolved |-> [fqName |-> poolPropertiesStore[Resolved[i]].name]]
  /\ dwarned = Unresolved
  /\ pcMain \notin {"new", "rejected", "describe"} => Described = collector.props

\* describe has returned for a list whose first key the registry does not
\* hold and whose second it does
C16_Witness ==
  /\ pcMain = "ready"
  /\ Len(collector.props) >= 2
  /\ dwarned = <<collector.props[1]>>
  /\ descs = <<[fqName |-> poolPropertiesStore[collector.props[2]].name]>>

====
